---- MODULE Spec2Model ----
(***************************************************************************)
(* Model of the bench-rs sampling engine: Bencher::iter, Bencher::async_iter, *)
(* Bencher::bench_once, Bencher::finish (src/src/bencher.rs) and the Stats   *)
(* reduction (src/src/lib.rs).                                               *)
(*                                                                           *)
(* One repetition of the benchmarked operation is one step.  The monotonic   *)
(* clock is the number of nanoseconds elapsed since `now` was captured at    *)
(* the start of iter / async_iter.  The operation takes opDur ns per call;   *)
(* the environment may also stall the thread (during a call or between two   *)
(* steps), which is how the deadline is reached at arbitrary places.         *)
(***************************************************************************)
EXTENDS Integers, Sequences, FiniteSets

VARIABLES
    mode,       \* "sync": iter is run, "async": async_iter is run
    count,      \* Bencher.count
    n,          \* Bencher.n
    passed,     \* Bencher.passed
    steps,      \* Bencher.steps, a sequence of Step records
    stats,      \* << >> or <<Stats>>: what finish handed to format_fn
    pc,         \* position of the caller in iter / async_iter / finish
    clock,      \* now.elapsed().as_nanos()
    opDur,      \* ns one call of the operation takes
    opChanges,  \* the deltas Region::change can report for one call of the operation
    opPolls,    \* the poll counts TimingFuture can report for one drive of the operation
    poll,       \* Bencher.poll
    polls,      \* local `polls` of async_iter: sum and length of the vector
    allPolls,   \* polls the operation underwent in all its drives of this run
    calPoll,    \* polls the operation underwent in the calibration drive
    seen,       \* the deltas Region::change reported in the batch in progress
    stalls,     \* number of stalls the environment has produced
    calls,      \* number of invocations of the operation f
    single,     \* << >> or <<duration measured by the calibration call>>
    i,          \* index of the outer `for _ in 0..self.count` loop
    bpassed,    \* local `passed` of the batch in progress
    bstart,     \* local `now` of bench_once: clock at the start of the batch
    mtime,      \* local `mtime` of async_iter: summed call times of the batch
    acc,        \* local allocations / allocated_bytes / leaked_bytes maxima
    batches,    \* number of batches completed in the sampling loop
    reps,       \* repetitions completed in the batch behind each Sample
    lateStarts, \* batches started after the deadline with > 3 batches completed
    lateCalls,  \* calls of f begun after the deadline with > 3 batches completed
    ref,        \* << >> or <<result of the sync run on the same inputs>>
    format_fn,  \* Bencher.format_fn: "default" or "custom"
    printed,    \* every invocation of the reporting hook, in order
    finishes,   \* number of calls of finish
    FIRST,      \* static FIRST: no default report was printed yet
    GLOBAL_ALLOC, \* allocation count of the process-wide StatsAlloc
    region      \* per sampling runner: its Region and its repetition

\* the poll accounting of async_iter
pollVars == <<poll, polls, allPolls, calPoll>>

\* the reporting hook and what it printed
fmtVars == <<format_fn, printed, finishes, FIRST>>

\* the accounting shared by every runner of the process
allocVars == <<GLOBAL_ALLOC, region>>

vars == <<mode, count, n, passed, steps, stats, pc, clock, opDur, opChanges,
          stalls, calls, single, i, bpassed, bstart, mtime, acc, batches,
          reps, lateStarts, lateCalls, ref, opPolls, pollVars, seen,
          fmtVars, allocVars>>

----------------------------------------------------------------------------
(* Program constants *)

MAX_ITERATIONS == 2000

DEFAULT_DEADLINE_MS == 300

NS_PER_MS == 1000000

BATCH_NS == 1000000

SLOW_N == 10

MIN_PASSED == 3

\* Duration::from_millis(DEFAULT_DEADLINE_MS).as_nanos()
Deadline == DEFAULT_DEADLINE_MS * NS_PER_MS

----------------------------------------------------------------------------
(* Bounds of the model *)

\* the environment stalls the thread at most this many times in one run
MaxStalls == 1

\* a stall happens only while at most this many batches have completed ...
MaxStallBatch == 4

\* ... and, inside a batch, at most this many of its repetitions
MaxStallRep == 5

\* length of one stall in ns
StallNs == 300000000

\* longest Sample sequence drawn for the Stats reduction on its own
MaxSteps == 3

\* calls of finish on one runner
MaxFinish == 2

\* target sample counts a runner is constructed with
Counts == {0, 1, 2, 5, 100, 1000}

\* per-call durations of the benchmarked operation, ns
OpDurs == {0, 500, 3000, 10000, 100000, 200000, 2000000, 100000000}

\* field values of the Samples drawn for the Stats reduction on its own
StepTimes == {1, 4}

StepMems == {0, 3}

StepAllocs == {0, 2}

StepLeaks == {0, 5}

\* allocator deltas of one call of the operation
OpChanges ==
    { [allocations |-> 0, bytes_allocated |-> 0, bytes_deallocated |-> 0],
      [allocations |-> 2, bytes_allocated |-> 64, bytes_deallocated |-> 16] }

\* the operations benchmarked: the allocator delta of one call and the poll
\* count of one drive (the operation that allocates is the one that suspends)
RunProfiles == {<<ch, ch.allocations>> : ch \in OpChanges}

----------------------------------------------------------------------------
(* Pure helpers *)

Max(a, b) == IF a >= b THEN a ELSE b

Min(a, b) == IF a <= b THEN a ELSE b

\* usize::saturating_sub
SaturatingSub(a, b) == IF a >= b THEN a - b ELSE 0

RECURSIVE SeqSum(_)
SeqSum(s) == IF s = << >> THEN 0 ELSE Head(s) + SeqSum(Tail(s))

RECURSIVE SeqMaxOr0(_)
\* iter().copied().max().unwrap_or_default()
SeqMaxOr0(s) ==
    IF s = << >> THEN 0
    ELSE IF Len(s) = 1 THEN Head(s)
    ELSE Max(Head(s), SeqMaxOr0(Tail(s)))

RECURSIVE SeqMinOr0(_)
\* iter().copied().min().unwrap_or_default()
SeqMinOr0(s) ==
    IF s = << >> THEN 0
    ELSE IF Len(s) = 1 THEN Head(s)
    ELSE Min(Head(s), SeqMinOr0(Tail(s)))

Field(s, f) == [k \in 1..Len(s) |-> s[k][f]]

----------------------------------------------------------------------------
(* The code's computations *)

\* mutant: the outer .max(1) is forgotten
CalibrateN_NoFloor(s) == BATCH_NS \div Max(s, 1)

\* self.n = (1_000_000 / single.max(1)).max(1) as usize
CalibrateN(s) == Max(BATCH_NS \div Max(s, 1), 1)

\* mutant: the deadline stops the loop whatever passed is
OuterStop_NoMinimum(p, t) ==
    p >= MAX_ITERATIONS \/ t >= Deadline

\* mutant: the deadline test is forgotten
OuterStop_NoDeadline(p, t) == p >= MAX_ITERATIONS

\* loop-head test of the sampling loop in iter and async_iter
OuterStop(p, t) ==
    p >= MAX_ITERATIONS \/ (p > MIN_PASSED /\ t >= Deadline)

\* mutant: the deadline is tested before any repetition has completed
InnerStopSync_NoMinimum(nn, p, bp, t) ==
    \/ p + bp >= MAX_ITERATIONS
    \/ (nn < SLOW_N /\ t >= Deadline)

\* mutant: the deadline is tested whatever n is
InnerStopSync_NoSlowTest(nn, p, bp, t) ==
    \/ p + bp >= MAX_ITERATIONS
    \/ (p + bp > MIN_PASSED /\ t >= Deadline)

\* mutant: the ceiling test inside the batch is forgotten
InnerStopSync_NoCeiling(nn, p, bp, t) ==
    nn < SLOW_N /\ p + bp > MIN_PASSED /\ t >= Deadline

\* test at the head of every repetition in bench_once;
\* p is self.passed, bp the local passed, nn the batch size
InnerStopSync(nn, p, bp, t) ==
    \/ p + bp >= MAX_ITERATIONS
    \/ (nn < SLOW_N /\ p + bp > MIN_PASSED /\ t >= Deadline)

\* test at the head of every repetition in async_iter; self.passed (p) has
\* already been raised by every repetition of the batch in progress
InnerStopAsync(p, bp, t) ==
    \/ p + bp >= MAX_ITERATIONS
    \/ (p > MIN_PASSED /\ t >= Deadline)

\* polls.push(tf_poll)
PushPoll(ps, k) == [sum |-> ps.sum + k, len |-> ps.len + 1]

\* mutant: the sum of the polls is divided by one more than their number
PollAverage_PlusOne(sum, len) == sum \div (len + 1)

\* self.poll = polls.iter().sum::<usize>() / polls.len()
PollAverage(sum, len) == sum \div len

\* mutant: the quotient is rounded up
StepTime_RoundUp(elapsed, r) == (elapsed + r - 1) \div r

\* mutant: the batch time is not divided by the repetitions
StepTime_Undivided(elapsed, r) == elapsed

\* per-operation time of a batch: res.0 / res.4 as u128, mtime / passed as u128
StepTime(elapsed, r) == elapsed \div r

ZeroAcc == [allocations |-> 0, allocated_bytes |-> 0, leaked_bytes |-> 0]

\* mutant: the three fields add the repetitions up
Track_Sum(a, ch) ==
    [allocations |-> a.allocations + ch.allocations,
     allocated_bytes |-> a.allocated_bytes + ch.bytes_allocated,
     leaked_bytes |-> a.leaked_bytes
                      + SaturatingSub(ch.bytes_allocated, ch.bytes_deallocated)]

\* the three `x = x.max(...)` updates after reg.change()
Track(a, ch) ==
    [allocations |-> Max(a.allocations, ch.allocations),
     allocated_bytes |-> Max(a.allocated_bytes, ch.bytes_allocated),
     leaked_bytes |-> Max(a.leaked_bytes,
                          SaturatingSub(ch.bytes_allocated, ch.bytes_deallocated))]

\* Step { time, mem, allocations, leaked_bytes }
MakeStep(t, a) ==
    [time |-> t, mem |-> a.allocated_bytes, allocations |-> a.allocations,
     leaked_bytes |-> a.leaked_bytes]

\* mutant: the sum is not divided by the number of Samples
TimesAverage_Sum(s) == SeqSum(Field(s, "time"))

\* times_average: (sum::<u128>() / count as u128) as usize
\* (every value of the model is far below 2^64: the casts lose nothing)
TimesAverage(s) == SeqSum(Field(s, "time")) \div Len(s)

\* mem_average: sum::<usize>() / count
MemAverage(s) == SeqSum(Field(s, "mem")) \div Len(s)

\* mutant: the allocations are summed
StatsAllocations_Sum(s) == SeqSum(Field(s, "allocations"))

\* allocations: max().unwrap_or_default()
StatsAllocations(s) == SeqMaxOr0(Field(s, "allocations"))

\* leaked_bytes: max().unwrap_or_default()
StatsLeaked(s) == SeqMaxOr0(Field(s, "leaked_bytes"))

\* Stats::from(steps); the two averages divide by steps.len()
StatsFrom(s) ==
    [times_average |-> TimesAverage(s),
     times_min |-> SeqMinOr0(Field(s, "time")),
     times_max |-> SeqMaxOr0(Field(s, "time")),
     mem_average |-> MemAverage(s),
     mem_min |-> SeqMinOr0(Field(s, "mem")),
     mem_max |-> SeqMaxOr0(Field(s, "mem")),
     allocations |-> StatsAllocations(s),
     leaked_bytes |-> StatsLeaked(s)]

----------------------------------------------------------------------------
(* The reports. A rendered number is kept as the quotient the code formats  *)
(* (num / den, printed with `decimals` digits after the point) and its unit *)
(* suffix exactly as the format string writes it.                           *)

\* mutant: the first boundary is inclusive
FormatDuration_Inclusive(value, mean, short) ==
    IF mean <= 1000
    THEN [num |-> value, den |-> 1, decimals |-> 0, unit |-> " ns"]
    ELSE IF mean < 1000000
    THEN IF short
         THEN [num |-> value \div 1000, den |-> 1, decimals |-> 0, unit |-> " µs"]
         ELSE [num |-> value, den |-> 1000, decimals |-> 2, unit |-> " µs"]
    ELSE IF mean < 1000000000
    THEN IF short
         THEN [num |-> value \div 1000000, den |-> 1, decimals |-> 0, unit |-> " ms"]
         ELSE [num |-> value, den |-> 1000000, decimals |-> 2, unit |-> " ms"]
    ELSE IF short
         THEN [num |-> value \div 1000000000, den |-> 1, decimals |-> 0, unit |-> "  s"]
         ELSE [num |-> value, den |-> 1000000000, decimals |-> 2, unit |-> "  s"]

\* fn format_duration(value, mean, short): the branch is chosen by `mean`
FormatDuration(value, mean, short) ==
    IF mean < 1000
    THEN [num |-> value, den |-> 1, decimals |-> 0, unit |-> " ns"]
    ELSE IF mean < 1000000
    THEN IF short
         THEN [num |-> value \div 1000, den |-> 1, decimals |-> 0, unit |-> " µs"]
         ELSE [num |-> value, den |-> 1000, decimals |-> 2, unit |-> " µs"]
    ELSE IF mean < 1000000000
    THEN IF short
         THEN [num |-> value \div 1000000, den |-> 1, decimals |-> 0, unit |-> " ms"]
         ELSE [num |-> value, den |-> 1000000, decimals |-> 2, unit |-> " ms"]
    ELSE IF short
         THEN [num |-> value \div 1000000000, den |-> 1, decimals |-> 0, unit |-> "  s"]
         ELSE [num |-> value, den |-> 1000000000, decimals |-> 2, unit |-> "  s"]

\* fn format_ops(value, with_unit)
FormatOps(value, with_unit) ==
    IF value < 1000
    THEN [num |-> value, den |-> 1, decimals |-> 0, unit |-> ""]
    ELSE IF value < 1000000
    THEN [num |-> value, den |-> 1000, decimals |-> 0,
          unit |-> IF with_unit THEN " K" ELSE ""]
    ELSE IF value < 1000000000
    THEN [num |-> value, den |-> 1000000, decimals |-> 0,
          unit |-> IF with_unit THEN " M" ELSE ""]
    ELSE [num |-> value, den |-> 1000000000, decimals |-> 0,
          unit |-> IF with_unit THEN " B" ELSE ""]

\* the +/- value of the default report:
\* times_max.saturating_sub(times_average).max(times_average.saturating_sub(times_min))
Deviation(st) ==
    Max(SaturatingSub(st.times_max, st.times_average),
        SaturatingSub(st.times_average, st.times_min))

\* Bencher::default_format(stats, bencher); mem_max and leaked_bytes are kept
\* as the numbers handed to human_bytes, and the throughput column (which
\* reads bytes, a field this model does not carry) is left out
DefaultFormat(st, b, first) ==
    [first |-> IF first THEN "." ELSE "",
     average |-> FormatDuration(st.times_average, st.times_average, FALSE),
     deviation |-> FormatDuration(Deviation(st), st.times_average, TRUE),
     ops |-> FormatOps(1000000000 \div Max(st.times_average, 1), TRUE),
     mem |-> st.mem_max,
     leaked |-> IF st.leaked_bytes = 0 THEN << >> ELSE <<st.leaked_bytes>>,
     allocations |-> st.allocations,
     passed |-> FormatOps(b.passed, TRUE),
     poll |-> IF b.poll > 0 THEN <<FormatOps(b.poll, TRUE)>> ELSE << >>]

\* the closure installed by test_bencher: prints the name and the Stats
CustomFormat(st, b) == <<"custom formatting", st>>

\* (self.format_fn)(&stats, self): one entry of `printed`
Hook(fn, st, b, first) ==
    [fn |-> fn, stats |-> st, bencher |-> b,
     text |-> IF fn = "default" THEN DefaultFormat(st, b, first)
              ELSE CustomFormat(st, b)]

----------------------------------------------------------------------------
(* The environment: the clock *)

Running == pc \in {"outer", "inner", "batch_end"}

CanStall ==
    /\ stalls < MaxStalls
    /\ batches <= MaxStallBatch
    /\ (pc = "inner" => bpassed <= MaxStallRep)

\* the deadline has passed and more than 3 batches have completed
Late == batches > 3 /\ clock >= Deadline

\* durations one call of the operation can take now
CallDurs == {opDur} \cup (IF CanStall THEN {opDur + StallNs} ELSE {})

StallsAfter(d) == IF d = opDur THEN stalls ELSE stalls + 1

\* the thread is held up between two steps of the run
Stall ==
    /\ Running
    /\ CanStall
    /\ clock' = clock + StallNs
    /\ stalls' = stalls + 1
    /\ UNCHANGED <<mode, count, n, passed, steps, stats, pc, opDur, opChanges,
                   calls, single, i, bpassed, bstart, mtime, acc, batches,
                   reps, lateStarts, lateCalls, ref, opPolls, pollVars, seen,
          fmtVars, allocVars>>
    /\ UNCHANGED <<fmtVars, allocVars>>

----------------------------------------------------------------------------
(* Bencher::new *)

ZeroPolls == [sum |-> 0, len |-> 0]

\* no runner takes part in the shared-accounting scenario
NoRegion == GLOBAL_ALLOC = 0 /\ region = << >>

Fresh(m, c, d, chs, ps) ==
    /\ mode = m
    /\ count = c
    /\ opDur = d
    /\ opChanges = chs
    /\ opPolls = ps
    /\ poll = 0
    /\ polls = ZeroPolls
    /\ allPolls = 0
    /\ calPoll = 0
    /\ seen = {}
    /\ n = 0
    /\ passed = 0
    /\ steps = << >>
    /\ stats = << >>
    /\ pc = "idle"
    /\ clock = 0
    /\ stalls = 0
    /\ calls = 0
    /\ single = << >>
    /\ i = 0
    /\ bpassed = 0
    /\ bstart = 0
    /\ mtime = 0
    /\ acc = ZeroAcc
    /\ batches = 0
    /\ reps = << >>
    /\ lateStarts = 0
    /\ lateCalls = 0
    /\ format_fn = "default"
    /\ printed = << >>
    /\ finishes = 0
    /\ FIRST = TRUE

Init ==
    /\ \E m \in {"sync", "async"}, c \in Counts, d \in OpDurs,
          pr \in RunProfiles :
          Fresh(m, c, d, {pr[1]}, {pr[2]})
    /\ ref = << >>
    /\ NoRegion

----------------------------------------------------------------------------
(* Bencher::iter and Bencher::async_iter *)

\* mutant: the calibration call is counted as a repetition
Calibrate_Counted ==
    /\ pc = "idle"
    /\ IF mode = "sync" /\ InnerStopSync(1, passed, 0, clock)
       THEN /\ single' = <<0>>
            /\ n' = CalibrateN(0)
            /\ UNCHANGED <<clock, stalls, calls, allPolls, calPoll, passed>>
       ELSE \E d \in CallDurs, k \in opPolls :
            /\ clock' = clock + d
            /\ stalls' = StallsAfter(d)
            /\ calls' = calls + 1
            /\ passed' = passed + 1
            /\ single' = <<d>>
            /\ n' = CalibrateN(d)
            /\ allPolls' = IF mode = "async" THEN allPolls + k ELSE allPolls
            /\ calPoll' = IF mode = "async" THEN k ELSE calPoll
    /\ i' = 0
    /\ pc' = "outer"
    /\ UNCHANGED <<mode, count, steps, stats, opDur, opChanges, bpassed,
                   bstart, mtime, acc, batches, reps, lateStarts, lateCalls, ref,
                   opPolls, poll, polls, seen>>
    /\ UNCHANGED <<fmtVars, allocVars>>

\* the calibration call: bench_once(&mut f, 1, ..).0 in iter,
\* TimingFuture::new(f()).await in async_iter
Calibrate ==
    /\ pc = "idle"
    /\ IF mode = "sync" /\ InnerStopSync(1, passed, 0, clock)
       THEN /\ single' = <<0>>
            /\ n' = CalibrateN(0)
            /\ UNCHANGED <<clock, stalls, calls, allPolls, calPoll>>
       ELSE \E d \in CallDurs, k \in opPolls :
            /\ clock' = clock + d
            /\ stalls' = StallsAfter(d)
            /\ calls' = calls + 1
            /\ single' = <<d>>
            /\ n' = CalibrateN(d)
            /\ allPolls' = IF mode = "async" THEN allPolls + k ELSE allPolls
            /\ calPoll' = IF mode = "async" THEN k ELSE calPoll
    /\ i' = 0
    /\ pc' = "outer"
    /\ UNCHANGED <<mode, count, passed, steps, stats, opDur, opChanges, bpassed,
                   bstart, mtime, acc, batches, reps, lateStarts, lateCalls, ref,
                   opPolls, poll, polls, seen>>
    /\ UNCHANGED <<fmtVars, allocVars>>

\* head of `for _ in 0..self.count`: leave the loop, or start the next batch
OuterCheck ==
    /\ pc = "outer"
    /\ IF i >= count \/ OuterStop(passed, clock)
       THEN /\ pc' = "done"
            /\ poll' = IF mode = "async" /\ polls.len # 0
                       THEN PollAverage(polls.sum, polls.len)
                       ELSE poll
            /\ UNCHANGED <<bpassed, bstart, mtime, acc, lateStarts, seen>>
       ELSE /\ pc' = "inner"
            /\ bpassed' = 0
            /\ bstart' = clock
            /\ mtime' = 0
            /\ acc' = ZeroAcc
            /\ seen' = {}
            /\ lateStarts' = IF Late THEN lateStarts + 1 ELSE lateStarts
            /\ UNCHANGED poll
    /\ UNCHANGED <<mode, count, n, passed, steps, stats, clock, opDur, opChanges,
                   stalls, calls, single, i, batches, reps, lateCalls, ref,
                   opPolls, polls, allPolls, calPoll>>
    /\ UNCHANGED <<fmtVars, allocVars>>

\* one pass of `for _ in 0..n` in bench_once
RepSync ==
    /\ pc = "inner"
    /\ mode = "sync"
    /\ IF bpassed >= n \/ InnerStopSync(n, passed, bpassed, clock)
       THEN /\ pc' = "batch_end"
            /\ UNCHANGED <<clock, stalls, calls, bpassed, acc, lateCalls, seen>>
       ELSE \E d \in CallDurs, ch \in opChanges :
            /\ clock' = clock + d
            /\ stalls' = StallsAfter(d)
            /\ calls' = calls + 1
            /\ bpassed' = bpassed + 1
            /\ acc' = Track(acc, ch)
            /\ seen' = seen \cup {ch}
            /\ lateCalls' = IF Late THEN lateCalls + 1 ELSE lateCalls
            /\ pc' = "inner"
    /\ UNCHANGED <<mode, count, n, passed, steps, stats, opDur, opChanges,
                   single, i, bstart, mtime, batches, reps, lateStarts, ref,
                   opPolls, pollVars>>
    /\ UNCHANGED <<fmtVars, allocVars>>

\* one pass of `for _ in 0..self.n` in async_iter
RepAsync ==
    /\ pc = "inner"
    /\ mode = "async"
    /\ IF bpassed >= n \/ InnerStopAsync(passed, bpassed, clock)
       THEN /\ pc' = "batch_end"
            /\ UNCHANGED <<clock, stalls, calls, bpassed, acc, mtime, passed,
                           lateCalls, seen, polls, allPolls>>
       ELSE \E d \in CallDurs, ch \in opChanges, k \in opPolls :
            /\ clock' = clock + d
            /\ stalls' = StallsAfter(d)
            /\ calls' = calls + 1
            /\ mtime' = mtime + d
            /\ bpassed' = bpassed + 1
            /\ polls' = PushPoll(polls, k)
            /\ allPolls' = allPolls + k
            /\ passed' = passed + 1
            /\ acc' = Track(acc, ch)
            /\ seen' = seen \cup {ch}
            /\ lateCalls' = IF Late THEN lateCalls + 1 ELSE lateCalls
            /\ pc' = "inner"
    /\ UNCHANGED <<mode, count, n, steps, stats, opDur, opChanges, single, i,
                   bstart, batches, reps, lateStarts, ref, opPolls, poll, calPoll>>
    /\ UNCHANGED <<fmtVars, allocVars>>

\* after bench_once returned in iter: `if res.4 != 0 { push; passed += res.4 }`
BatchEndSync ==
    /\ pc = "batch_end"
    /\ mode = "sync"
    /\ IF bpassed # 0
       THEN /\ steps' = Append(steps, MakeStep(StepTime(clock - bstart, bpassed), acc))
            /\ passed' = passed + bpassed
            /\ reps' = Append(reps, bpassed)
       ELSE UNCHANGED <<steps, passed, reps>>
    /\ batches' = batches + 1
    /\ i' = i + 1
    /\ pc' = "outer"
    /\ UNCHANGED <<mode, count, n, stats, clock, opDur, opChanges, stalls, calls,
                   single, bpassed, bstart, mtime, acc, lateStarts, lateCalls,
                   ref, opPolls, pollVars, seen>>
    /\ UNCHANGED <<fmtVars, allocVars>>

\* after the inner loop of async_iter: `if passed != 0 { push }`
BatchEndAsync ==
    /\ pc = "batch_end"
    /\ mode = "async"
    /\ IF bpassed # 0
       THEN /\ steps' = Append(steps, MakeStep(StepTime(mtime, bpassed), acc))
            /\ reps' = Append(reps, bpassed)
       ELSE UNCHANGED <<steps, reps>>
    /\ batches' = batches + 1
    /\ i' = i + 1
    /\ pc' = "outer"
    /\ UNCHANGED <<mode, count, n, passed, stats, clock, opDur, opChanges, stalls,
                   calls, single, bpassed, bstart, mtime, acc, lateStarts,
                   lateCalls, ref, opPolls, pollVars, seen>>
    /\ UNCHANGED <<fmtVars, allocVars>>

----------------------------------------------------------------------------
(* Bencher::finish *)

\* the fields of the runner the hook can read
BencherState ==
    [n |-> n, passed |-> passed, poll |-> poll, count |-> count,
     samples |-> Len(steps)]

\* Stats::from divides by steps.len(): with no Sample the division panics
Finish ==
    /\ pc \in {"idle", "done", "finished"}
    /\ finishes < MaxFinish
    /\ finishes' = finishes + 1
    /\ IF Len(steps) = 0
       THEN /\ pc' = "panicked"
            /\ UNCHANGED <<stats, printed, FIRST>>
       ELSE /\ pc' = "finished"
            /\ stats' = <<StatsFrom(steps)>>
            /\ printed' = Append(printed,
                                 Hook(format_fn, StatsFrom(steps), BencherState, FIRST))
            /\ FIRST' = IF format_fn = "default" THEN FALSE ELSE FIRST
    /\ UNCHANGED <<mode, count, n, passed, steps, clock, opDur, opChanges,
                   stalls, calls, single, i, bpassed, bstart, mtime, acc,
                   batches, reps, lateStarts, lateCalls, ref, opPolls, pollVars,
                   seen, format_fn, allocVars>>

\* `bencher.format_fn = ...` between the run and finish, as in test_bencher
SetFormat ==
    /\ pc \in {"done", "finished"}
    /\ finishes < MaxFinish
    /\ \E f \in {"default", "custom"} \ {format_fn} : format_fn' = f
    /\ UNCHANGED <<mode, count, n, passed, steps, stats, pc, clock, opDur,
                   opChanges, stalls, calls, single, i, bpassed, bstart, mtime,
                   acc, batches, reps, lateStarts, lateCalls, ref, opPolls,
                   pollVars, seen, printed, finishes, FIRST, allocVars>>

----------------------------------------------------------------------------
(* A second runner, constructed like the first, runs async_iter on the same  *)
(* operation after a sync run whose clock stayed below the deadline.         *)

SyncResult ==
    [n |-> n, samples |-> Len(steps), reps |-> reps, passed |-> passed]

Rerun ==
    /\ pc = "done"
    /\ mode = "sync"
    /\ ref = << >>
    /\ clock < Deadline
    /\ ref' = <<SyncResult>>
    /\ mode' = "async"
    /\ n' = 0
    /\ passed' = 0
    /\ steps' = << >>
    /\ pc' = "idle"
    /\ clock' = 0
    /\ calls' = 0
    /\ single' = << >>
    /\ i' = 0
    /\ bpassed' = 0
    /\ bstart' = 0
    /\ mtime' = 0
    /\ acc' = ZeroAcc
    /\ batches' = 0
    /\ reps' = << >>
    /\ lateStarts' = 0
    /\ lateCalls' = 0
    /\ poll' = 0
    /\ polls' = ZeroPolls
    /\ allPolls' = 0
    /\ calPoll' = 0
    /\ seen' = {}
    /\ UNCHANGED <<count, stats, opDur, opChanges, stalls, opPolls>>
    /\ format_fn' = "default"
    /\ UNCHANGED <<printed, finishes, FIRST, allocVars>>

----------------------------------------------------------------------------

Next ==
    \/ Calibrate
    \/ OuterCheck
    \/ RepSync
    \/ RepAsync
    \/ BatchEndSync
    \/ BatchEndAsync
    \/ Finish
    \/ SetFormat
    \/ Stall
    \/ Rerun

Spec == Init /\ [][Next]_vars

----------------------------------------------------------------------------
(* The Stats reduction on its own: finish on a runner holding any Sample     *)
(* sequence of at most MaxSteps Samples.                                     *)

StepSamples ==
    [time : StepTimes, mem : StepMems, allocations : StepAllocs,
     leaked_bytes : StepLeaks]

InitStats ==
    /\ \E k \in 0..MaxSteps : \E ss \in [1..k -> StepSamples] :
          /\ steps = ss
          /\ count = k
          /\ passed = k
          /\ i = k
          /\ batches = k
          /\ calls = k + 1
          /\ reps = [j \in 1..k |-> 1]
    /\ mode = "sync"
    /\ opDur = BATCH_NS
    /\ \E ch \in OpChanges : opChanges = {ch}
    /\ opPolls = {0}
    /\ poll = 0
    /\ polls = ZeroPolls
    /\ allPolls = 0
    /\ calPoll = 0
    /\ seen = {}
    /\ n = 1
    /\ stats = << >>
    /\ pc = "done"
    /\ clock = 0
    /\ stalls = 0
    /\ single = <<BATCH_NS>>
    /\ bpassed = 0
    /\ bstart = 0
    /\ mtime = 0
    /\ acc = ZeroAcc
    /\ lateStarts = 0
    /\ lateCalls = 0
    /\ ref = << >>
    /\ format_fn = "default"
    /\ printed = << >>
    /\ finishes = 0
    /\ FIRST = TRUE
    /\ NoRegion

NextStats == Finish

SpecStats == InitStats /\ [][NextStats]_vars

----------------------------------------------------------------------------
(* The default report on its own: finish on a runner whose Samples sit on    *)
(* and around the unit boundaries of format_duration.                        *)

FormatTimes == {0, 999, 1000, 1001, 999999, 1000000, 999999999, 1000000000}

FormatSamples ==
    [time : FormatTimes, mem : {0}, allocations : {0}, leaked_bytes : {0}]

InitFormat ==
    /\ \E k \in 1..2 : \E ss \in [1..k -> FormatSamples] :
          /\ steps = ss
          /\ count = k
          /\ passed = k
          /\ i = k
          /\ batches = k
          /\ calls = k + 1
          /\ reps = [j \in 1..k |-> 1]
    /\ mode = "sync"
    /\ opDur = BATCH_NS
    /\ opChanges = {[allocations |-> 0, bytes_allocated |-> 0, bytes_deallocated |-> 0]}
    /\ opPolls = {0}
    /\ poll = 0
    /\ polls = ZeroPolls
    /\ allPolls = 0
    /\ calPoll = 0
    /\ seen = {}
    /\ n = 1
    /\ stats = << >>
    /\ pc = "done"
    /\ clock = 0
    /\ stalls = 0
    /\ single = <<BATCH_NS>>
    /\ bpassed = 0
    /\ bstart = 0
    /\ mtime = 0
    /\ acc = ZeroAcc
    /\ lateStarts = 0
    /\ lateCalls = 0
    /\ ref = << >>
    /\ format_fn = "default"
    /\ printed = << >>
    /\ finishes = 0
    /\ FIRST = TRUE
    /\ NoRegion

NextFormat ==
    \/ Finish
    \/ SetFormat

SpecFormat == InitFormat /\ [][NextFormat]_vars

----------------------------------------------------------------------------
(* Short runs of an operation whose allocator delta and poll count differ    *)
(* from one call to the next.                                                *)

ProbeCounts == {0, 1, 2}

ProbeDurs == {300000, 2000000}

\* the third delta frees more than it allocates
ProbeChanges ==
    OpChanges \cup
        { [allocations |-> 1, bytes_allocated |-> 8, bytes_deallocated |-> 40] }

ProbePolls == {{2}, {0, 1, 3}}

InitProbe ==
    /\ \E m \in {"sync", "async"}, c \in ProbeCounts, d \in ProbeDurs,
          ps \in ProbePolls :
          Fresh(m, c, d, ProbeChanges, ps)
    /\ ref = << >>
    /\ NoRegion

SpecProbe == InitProbe /\ [][Next]_vars

----------------------------------------------------------------------------
(* The shared accounting: every runner of the process reads the one          *)
(* GLOBAL_ALLOC. A sampling runner repeats reset, call, change               *)
(* (bench_once) while the other runner, if there is one, does the same.      *)

Runners == {1, 2}

\* repetitions each sampling runner performs
MaxRegionReps == 2

\* allocations one call of an operation makes
AllocCounts == {0, 1, 2}

\* a runner that does not sample
RegionIdle ==
    [pc |-> "end", initial |-> 0, own |-> 0, foreign |-> 0, changes |-> << >>,
     left |-> 0]

\* a runner about to enter bench_once
RegionStart ==
    [pc |-> "new", initial |-> 0, own |-> 0, foreign |-> 0, changes |-> << >>,
     left |-> MaxRegionReps]

\* the runners that sample
Sampling == {r \in Runners : region[r] # RegionIdle}

\* mutant: reset keeps the old snapshot
ResetSnapshot_Stale(g, init) == init

\* reg.reset(): the Region's snapshot becomes the current counter
ResetSnapshot(g, init) == g

\* reg.change(): the current counter minus the Region's snapshot
ChangeSince(g, init) == g - init

\* runner q is between its reset and its change reading
Measuring(q) == region[q].pc \in {"call", "change"}

RunUnchanged ==
    UNCHANGED <<mode, count, n, passed, steps, stats, pc, clock, opDur,
                opChanges, stalls, calls, single, i, bpassed, bstart, mtime,
                acc, batches, reps, lateStarts, lateCalls, ref, opPolls,
                pollVars, seen, fmtVars>>

\* let mut reg = Region::new(self.allocator)
RegionNew(r) ==
    /\ region[r].pc = "new"
    /\ region' = [region EXCEPT ![r].initial = GLOBAL_ALLOC, ![r].pc = "reset"]
    /\ UNCHANGED GLOBAL_ALLOC
    /\ RunUnchanged

\* reg.reset()
RegionReset(r) ==
    /\ region[r].pc = "reset"
    /\ region' = [region EXCEPT
                     ![r].initial = ResetSnapshot(GLOBAL_ALLOC, region[r].initial),
                     ![r].own = 0,
                     ![r].foreign = 0,
                     ![r].pc = "call"]
    /\ UNCHANGED GLOBAL_ALLOC
    /\ RunUnchanged

\* black_box(f()): the operation of runner r allocates
RegionCall(r) ==
    /\ region[r].pc = "call"
    /\ \E a \in AllocCounts :
          /\ GLOBAL_ALLOC' = GLOBAL_ALLOC + a
          /\ region' = [q \in Runners |->
                           IF q = r
                           THEN [region[q] EXCEPT !.own = a, !.pc = "change"]
                           ELSE IF Measuring(q)
                           THEN [region[q] EXCEPT !.foreign = @ + a]
                           ELSE region[q]]
    /\ RunUnchanged

\* let changes = reg.change()
RegionChange(r) ==
    /\ region[r].pc = "change"
    /\ region' = [region EXCEPT
                     ![r].changes = <<ChangeSince(GLOBAL_ALLOC, region[r].initial)>>,
                     ![r].left = @ - 1,
                     ![r].pc = IF region[r].left > 1 THEN "reset" ELSE "end"]
    /\ UNCHANGED GLOBAL_ALLOC
    /\ RunUnchanged

InitShared ==
    /\ Fresh("sync", 1, BATCH_NS,
             {[allocations |-> 0, bytes_allocated |-> 0, bytes_deallocated |-> 0]},
             {0})
    /\ ref = << >>
    /\ GLOBAL_ALLOC = 0
    /\ \E act \in {{1}, {1, 2}} :
          region = [r \in Runners |-> IF r \in act THEN RegionStart ELSE RegionIdle]

NextShared ==
    \E r \in Runners :
        \/ RegionNew(r)
        \/ RegionReset(r)
        \/ RegionCall(r)
        \/ RegionChange(r)

SpecShared == InitShared /\ [][NextShared]_vars

----------------------------------------------------------------------------
(* Properties *)

AllTimes(t) == \A k \in 1..Len(steps) : steps[k].time = t

\* C1: in every state of a run of iter or async_iter on a fresh runner, steps
\* holds at most count Samples and passed is at most MAX_ITERATIONS (2000).
C1_SamplesAndCeilingBounded ==
    /\ Len(steps) <= count
    /\ passed <= MAX_ITERATIONS

\* the ceiling cut a batch short (n = 333 does not divide 2000)
C1_Witness ==
    /\ pc = "done"
    /\ passed = MAX_ITERATIONS
    /\ Len(steps) < count
    /\ n = 333
    /\ reps # << >>
    /\ reps[Len(reps)] < n

\* the sync run of the scenario: count = 100, every call takes 10 000 ns,
\* no stall, so the clock stays far below the deadline
C2_Scenario ==
    /\ pc = "done"
    /\ mode = "sync"
    /\ count = 100
    /\ opDur = 10000
    /\ stalls = 0

\* C2 as stated: the scenario ends with exactly 100 Samples of 10 000 ns each.
C2_HundredSamples ==
    C2_Scenario => (Len(steps) = 100 /\ AllTimes(10000))

\* C2 as amended: calibration gives n = 100, and the scenario ends when the
\* ceiling is reached, with exactly 2000 / 100 = 20 Samples of 10 000 ns each
\* and passed = 2000.
C2_TwentySamples ==
    C2_Scenario =>
        /\ n = 100
        /\ clock < Deadline
        /\ Len(steps) = 20
        /\ Len(steps) * n = MAX_ITERATIONS
        /\ passed = MAX_ITERATIONS
        /\ AllTimes(10000)

C2_Witness == C2_Scenario /\ steps # << >>

\* C3: after calibration n = max(1, floor(1_000_000 / max(1, single))):
\* n >= 1 always, n is the largest multiple count of single fitting in 1 ms
\* when 1 <= single <= 1 ms, single = 500 gives 2000, single = 2_000_000
\* gives 1 and single = 0 gives 1_000_000.
C3_CalibratedN ==
    single # << >> =>
        LET sg == single[1] IN
        /\ n >= 1
        /\ n = Max(1, 1000000 \div Max(1, sg))
        /\ (sg >= 1 /\ sg <= 1000000) =>
               (n * sg <= 1000000 /\ (n + 1) * sg > 1000000)
        /\ sg > 1000000 => n = 1
        /\ sg = 0 => n = 1000000
        /\ sg = 500 => n = 2000
        /\ sg = 2000000 => n = 1

\* a calibration call slower than 1 ms, measured by async_iter
C3_Witness ==
    /\ mode = "async"
    /\ single = <<2000000>>
    /\ n = 1
    /\ pc = "outer"

\* C4: for a non-empty Sample sequence the Stats satisfy
\* times_min <= times_average <= times_max, mem_min <= mem_average <= mem_max,
\* and each average is the floor of the mean of the Samples' values.
C4_MinAverageMax ==
    stats # << >> =>
        LET st == stats[1]
            len == Len(steps)
            tsum == SeqSum(Field(steps, "time"))
            msum == SeqSum(Field(steps, "mem"))
        IN  /\ len > 0
            /\ st.times_min <= st.times_average
            /\ st.times_average <= st.times_max
            /\ st.mem_min <= st.mem_average
            /\ st.mem_average <= st.mem_max
            /\ st.times_average * len <= tsum
            /\ tsum < (st.times_average + 1) * len
            /\ st.mem_average * len <= msum
            /\ msum < (st.mem_average + 1) * len

\* both averages lie strictly between the extremes
C4_Witness ==
    /\ stats # << >>
    /\ stats[1].times_min < stats[1].times_average
    /\ stats[1].times_average < stats[1].times_max
    /\ stats[1].mem_min < stats[1].mem_average
    /\ stats[1].mem_average < stats[1].mem_max

\* C5: whenever Stats is produced, Stats.allocations is the largest of the
\* Samples' allocations and Stats.leaked_bytes the largest of the Samples'
\* leaked_bytes.
C5_AllocationsAndLeakedAreMaxima ==
    stats # << >> =>
        /\ \A k \in 1..Len(steps) :
              /\ steps[k].allocations <= stats[1].allocations
              /\ steps[k].leaked_bytes <= stats[1].leaked_bytes
        /\ \E k \in 1..Len(steps) : steps[k].allocations = stats[1].allocations
        /\ \E k \in 1..Len(steps) : steps[k].leaked_bytes = stats[1].leaked_bytes

\* the maximum differs from the sum and from the average of the Samples
C5_Witness ==
    /\ stats # << >>
    /\ Len(steps) = 3
    /\ stats[1].allocations = 2
    /\ stats[1].leaked_bytes = 5
    /\ SeqSum(Field(steps, "allocations")) = 4
    /\ SeqSum(Field(steps, "leaked_bytes")) = 10

\* C6: finish on an empty Sample sequence is guarded: it never divides by
\* zero, so it never panics.
C6_EmptyReductionGuarded ==
    Len(steps) = 0 => pc # "panicked"

\* C7: no runner with a target sample count of zero exists: construction
\* rejects it.
C7_ZeroCountRejected == count # 0

\* the sampling loop was left with fewer than count Samples and below the ceiling
C8_EarlyExit ==
    /\ pc = "done"
    /\ Len(steps) < count
    /\ passed < MAX_ITERATIONS

\* C8 as stated: the loop is left early for the deadline only when more than
\* 3 batches have completed, so with count >= 4 at least 4 Samples exist.
C8_FourBatches ==
    /\ C8_EarlyExit => batches >= 4
    /\ (pc = "done" /\ count >= 4 /\ passed < MAX_ITERATIONS) => Len(steps) >= 4

\* C8 as amended: the loop is left early for the deadline only when more than
\* 3 repetitions have completed and the deadline is reached; with count >= 4
\* and the ceiling not reached at least 4 repetitions were completed and at
\* least one Sample was collected.
C8_FourRepetitions ==
    /\ C8_EarlyExit => (passed > 3 /\ clock >= Deadline)
    /\ (pc = "done" /\ count >= 4 /\ passed < MAX_ITERATIONS) =>
           (passed >= 4 /\ Len(steps) >= 1)

\* the deadline ended the loop after a single batch
C8_Witness ==
    /\ C8_EarlyExit
    /\ batches = 1
    /\ count >= 4
    /\ clock >= Deadline

\* C9 as stated: in a sync run, once more than 3 batches have completed and
\* the deadline has passed, no batch is started and fewer than n further
\* calls of the operation are made, none when n < 10.
C9_FewerThanN ==
    (mode = "sync" /\ single # << >>) =>
        /\ lateStarts = 0
        /\ lateCalls < n
        /\ n < 10 => lateCalls = 0

\* C9 as amended: ... no batch is started and at most n further calls of the
\* operation are made (the batch in progress is finished), none when n < 10.
C9_AtMostN ==
    (mode = "sync" /\ single # << >>) =>
        /\ lateStarts = 0
        /\ lateCalls <= n
        /\ n < 10 => lateCalls = 0

\* the batch in progress when the deadline passed was finished, then the loop
\* stopped well short of count
C9_Witness ==
    /\ mode = "sync"
    /\ pc = "done"
    /\ Late
    /\ lateCalls > 0
    /\ Len(steps) < count

\* C10: with the same count, the same calibrated n and a clock below the
\* deadline, async_iter ends with as many Samples, the same repetitions per
\* batch and the same passed as iter.
C10_AsyncMatchesSync ==
    (pc = "done" /\ ref # << >> /\ clock < Deadline /\ n = ref[1].n) =>
        /\ Len(steps) = ref[1].samples
        /\ reps = ref[1].reps
        /\ passed = ref[1].passed

\* polls of the counted repetitions: all drives but the calibration drive
CountedPolls == allPolls - calPoll

\* C11: after async_iter on a fresh runner, poll is the floor of (polls of
\* all counted repetitions / passed), the calibration drive excluded from sum
\* and divisor; equal poll counts k give k; with no repetition poll stays 0.
C11_PollIsFloorAverage ==
    (mode = "async" /\ pc = "done") =>
        IF passed >= 1
        THEN /\ polls.len = passed
             /\ poll * passed <= CountedPolls
             /\ CountedPolls < (poll + 1) * passed
             /\ \A k \in opPolls : opPolls = {k} => poll = k
        ELSE poll = 0

\* the division rounds down, and the calibration drive was polled
C11_Witness ==
    /\ mode = "async"
    /\ pc = "done"
    /\ passed >= 2
    /\ calPoll > 0
    /\ poll >= 1
    /\ CountedPolls % passed # 0

\* greatest member of a non-empty set of numbers
SetMax(S) == CHOOSE x \in S : \A y \in S : y <= x

\* the last Sample, pushed by the batch whose repetitions reported `seen`
LastStep == steps[Len(steps)]

\* C17: a Sample's mem, allocations and leaked_bytes are the maxima over the
\* repetitions of its batch of the bytes allocated, the allocation count and
\* max(0, allocated - deallocated); they are never sums, and leaked_bytes is
\* never negative.
C17_SampleHoldsBatchMaxima ==
    (pc \in {"outer", "done"} /\ seen # {}) =>
        /\ steps # << >>
        /\ LastStep.mem = SetMax({ch.bytes_allocated : ch \in seen})
        /\ LastStep.allocations = SetMax({ch.allocations : ch \in seen})
        /\ LastStep.leaked_bytes =
               SetMax({Max(0, ch.bytes_allocated - ch.bytes_deallocated) : ch \in seen})
        /\ LastStep.leaked_bytes >= 0

\* a batch of several repetitions with different deltas, one of which freed
\* more than it allocated, and whose sum would exceed the maximum
C17_Witness ==
    /\ pc = "outer"
    /\ bpassed >= 2
    /\ Cardinality(seen) >= 2
    /\ \E ch \in seen : ch.bytes_deallocated > ch.bytes_allocated
    /\ \A ch \in seen : ch.allocations >= 1
    /\ LastStep.leaked_bytes > 0

\* the elapsed time a batch reports when it ends: start.elapsed() in
\* bench_once, the summed drive times in async_iter
BatchElapsed == IF mode = "sync" THEN clock - bstart ELSE mtime

\* repetitions already added to passed by the batch in progress
InBatch == IF mode = "async" /\ pc \in {"inner", "batch_end"} THEN bpassed ELSE 0

\* passed is the sum of the repetitions of the batches behind the Samples,
\* none of which is a zero-repetition batch
C14_Ledger ==
    /\ Len(reps) = Len(steps)
    /\ \A k \in 1..Len(reps) : reps[k] >= 1
    /\ passed = SeqSum(reps) + InBatch

\* what one step may do to steps and passed (a batch ends on the step that
\* leaves "batch_end")
C14_Step ==
    IF pc = "batch_end" /\ pc' = "outer"
    THEN IF bpassed >= 1
         THEN /\ Len(steps') = Len(steps) + 1
              /\ SubSeq(steps', 1, Len(steps)) = steps
              /\ steps'[Len(steps')].time * bpassed <= BatchElapsed
              /\ BatchElapsed < (steps'[Len(steps')].time + 1) * bpassed
              /\ passed' + InBatch' = (passed - InBatch) + bpassed
         ELSE steps' = steps /\ passed' = passed
    ELSE \/ steps' = steps
         \/ pc = "done" /\ pc' = "idle" /\ steps' = << >>

CutByDeadline ==
    /\ mode = "sync"
    /\ pc = "batch_end"
    /\ bpassed < n
    /\ passed + bpassed < MAX_ITERATIONS

\* C15 (as stated): the deadline cuts a sync batch only when n < 10 and more
\* than 3 repetitions of that same batch have completed.
C15_ThreeInThisBatch == CutByDeadline => (n < SLOW_N /\ bpassed > MIN_PASSED)

\* C15 (amended): the deadline cuts a sync batch only when n < 10, the clock
\* has reached the deadline and more than 3 repetitions of the run (those of
\* the earlier batches plus those of this batch) have completed.
C15_ThreeInTheRun ==
    CutByDeadline =>
        /\ n < SLOW_N
        /\ passed + bpassed > MIN_PASSED
        /\ clock >= Deadline

\* a batch cut by the deadline with at most 3 repetitions of its own
C15_Witness ==
    /\ CutByDeadline
    /\ bpassed >= 1
    /\ bpassed <= MIN_PASSED
    /\ passed >= 1

\* the run never met a stop condition: the ceiling is not reached and the
\* clock is still below the deadline when the run ends
NeverStopped == passed < MAX_ITERATIONS /\ clock < Deadline

\* C16: a run that ends with fewer than count Samples ends with passed >= 2000
\* or (passed > 3 and elapsed >= deadline); a run for which neither ever
\* becomes true collects exactly count Samples, every batch completing exactly
\* n repetitions.
C16_EarlyEndOnlyByStop ==
    pc = "done" =>
        /\ Len(steps) < count =>
               (passed >= MAX_ITERATIONS \/ (passed > MIN_PASSED /\ clock >= Deadline))
        /\ NeverStopped =>
               /\ Len(steps) = count
               /\ \A k \in 1..Len(reps) : reps[k] = n

\* the calibration step: one call of the operation, and only n is written
C18_Step ==
    (pc = "idle" /\ pc' = "outer") =>
        /\ calls' = calls + 1
        /\ n' = CalibrateN(single'[1])
        /\ steps' = steps
        /\ passed' = passed
        /\ poll' = poll
        /\ polls' = polls

\* calls of the operation so far in a sync run: calibration plus repetitions
C18_Count ==
    /\ (mode = "sync" /\ pc = "done") =>
           (calls = passed + 1 /\ calls <= MAX_ITERATIONS + 1)
    /\ (mode = "async" /\ pc = "done") => polls.len = calls - 1

\* C18: iter and async_iter start with exactly one call of the operation,
\* which changes only n (no Sample, passed not raised, no poll recorded); at
\* the end of a sync run the operation was called passed + 1 times, at most
\* 2001.
C18_CalibrationCallsOnce == []C18_Count /\ [][C18_Step]_vars

\* a sync run that reached the ceiling: 2000 repetitions and the calibration
C18_Witness ==
    /\ mode = "sync"
    /\ pc = "done"
    /\ passed = MAX_ITERATIONS
    /\ calls = MAX_ITERATIONS + 1
    /\ n = CalibrateN(single[1])

\* C19: on a fresh runner with count >= 1 a run of iter or async_iter ends
\* with at least one Sample whatever the clock does, even when the
\* calibration call alone exceeds the deadline; finish after such a run never
\* reduces an empty sequence.
C19_AtLeastOneSample ==
    (count >= 1 /\ single # << >>) =>
        /\ pc \in {"done", "finished"} => Len(steps) >= 1
        /\ pc # "panicked"
        /\ pc = "finished" => stats # << >>

\* finish after a run whose calibration call alone took longer than the
\* deadline
C19_Witness ==
    /\ count >= 1
    /\ pc = "finished"
    /\ single[1] >= Deadline
    /\ Len(steps) >= 1

\* what a call of finish does, as claimed: one more entry of `printed`, made
\* by the hook installed now from the Stats of the current Samples and the
\* runner's state, and no change to the runner
C12_Step ==
    (finishes' = finishes + 1) =>
        /\ Len(printed') = Len(printed) + 1
        /\ SubSeq(printed', 1, Len(printed)) = printed
        /\ printed'[Len(printed')].fn = format_fn
        /\ printed'[Len(printed')].stats = StatsFrom(steps)
        /\ printed'[Len(printed')].bencher = BencherState
        /\ UNCHANGED <<steps, n, passed, poll, count>>

\* C12: each call of finish invokes exactly once the reporting hook installed
\* at the moment of the call (also one installed after sampling ended), with
\* the Stats reduced from the whole current Sample sequence and the runner's
\* state, and changes none of steps, n, passed, poll, count.
C12_FinishInvokesHookOnce == [][C12_Step]_vars

\* the unit the magnitude of a value calls for
UnitOf(v) ==
    IF v < 1000 THEN " ns"
    ELSE IF v < 1000000 THEN " µs"
    ELSE IF v < 1000000000 THEN " ms"
    ELSE "  s"

\* the default reports printed so far
DefaultReports == {k \in 1..Len(printed) : printed[k].fn = "default"}

\* C13 (as stated): the average and the +/- deviation of the default report
\* each get their unit from the magnitude of the rendered value itself.
C13_UnitFromValue ==
    \A k \in DefaultReports :
        /\ printed[k].text.average.unit = UnitOf(printed[k].stats.times_average)
        /\ printed[k].text.deviation.unit = UnitOf(Deviation(printed[k].stats))

\* C13 (amended): both durations get their unit from the magnitude of the
\* average: "ns" below 1000, "µs" below 1_000_000, "ms" below 1_000_000_000,
\* "s" from there on, the boundaries exact; the deviation is printed in the
\* average's unit whatever its own magnitude.
C13_UnitFromAverage ==
    \A k \in DefaultReports :
        LET avg == printed[k].stats.times_average
            t == printed[k].text
        IN /\ t.average.unit = UnitOf(avg)
           /\ t.deviation.unit = UnitOf(avg)
           /\ t.average.num = avg
           /\ avg = 999 => t.average.unit = " ns"
           /\ avg = 1000 => t.average.unit = " µs"
           /\ avg = 999999 => t.average.unit = " µs"
           /\ avg = 1000000 => t.average.unit = " ms"
           /\ avg = 999999999 => t.average.unit = " ms"
           /\ avg = 1000000000 => t.average.unit = "  s"

\* an average exactly on the first boundary with a deviation below it
C13_Witness ==
    \E k \in DefaultReports :
        /\ printed[k].stats.times_average = 1000
        /\ Deviation(printed[k].stats) \in 1..999
        /\ printed[k].text.average.unit = " µs"
        /\ printed[k].text.deviation.unit = " µs"
        /\ printed[k].text.deviation.num = 0

\* runner r has read the delta of its last repetition
HasRead(r) == region[r].pc \in {"reset", "end"} /\ region[r].changes # << >>

\* C20: the delta a runner records for a repetition is what that repetition
\* allocated between reset and change plus what the other sampling runner
\* allocated in that window; with a single sampling runner it is exactly the
\* repetition's own allocations.
C20_AttributionNeedsOneRunner ==
    \A r \in Sampling :
        HasRead(r) =>
            /\ region[r].changes[1] = region[r].own + region[r].foreign
            /\ Cardinality(Sampling) = 1 => region[r].changes[1] = region[r].own

\* two runners sample and one recorded the other's allocations as its own
C20_Witness ==
    /\ Cardinality(Sampling) = 2
    /\ \E r \in Sampling :
          /\ HasRead(r)
          /\ region[r].foreign > 0
          /\ region[r].changes[1] > region[r].own

====
